---- MODULE Spec2Model ----
(***************************************************************************)
(* azure-scheduledevents-exporter, src/metrics.go.                         *)
(*                                                                         *)
(* The poll loop (startMetricsCollection) dispatches probeCollect as a new *)
(* goroutine on every tick.  probeCollect fetches the scheduled-events     *)
(* document, and either counts the failure (apiErrorCount, tolerate or     *)
(* panic) or republishes the two gauge vectors.  The /metrics handler      *)
(* reads the gauge vectors at any moment.                                  *)
(*                                                                         *)
(* Shared variables are accessed without synchronisation in the source, so *)
(* every access to apiErrorCount is a step of its own; the calls into the  *)
(* prometheus GaugeVec (Reset, With, Set) are each atomic, and are steps   *)
(* of their own as well.                                                   *)
(***************************************************************************)
EXTENDS Integers, Sequences, FiniteSets, TLC

\* Bounds of the model.
MaxInFlight == 2      \* probeCollect goroutines alive at the same time
MaxDispatch == 3      \* cycles dispatched by the poll loop in one run
MaxThreshold == 1     \* opts.ApiErrorThreshold ranges over -1..MaxThreshold
MaxIncarnation == 2   \* DocumentIncarnation values the upstream goes through
MaxCalls == 2         \* events evaluated one after another by lines 100-111

Cycles == 1..MaxInFlight
Thresholds == (-1)..MaxThreshold

VARIABLES
    threshold,      \* opts.ApiErrorThreshold
    apiErrorCount,  \* the FailureCounter
    scheduledEvent, \* GaugeVec azure_scheduledevent_event: set of [labels, value]
    scheduledEventDocumentIncarnation, \* GaugeVec without labels
    upstream,       \* the document the metadata endpoint serves now
    loopPc,         \* poll loop: "dispatch" (line 72) or "sleep" (line 73)
    pc,             \* per goroutine: position in probeCollect
    scheduledEvents,\* per goroutine: the pointer fetchApiUrl returned
    tmp,            \* per goroutine: the value apiErrorCount++ has loaded
    evIdx,          \* per goroutine: index of the range over Events
    resIdx,         \* per goroutine: index of the range over Resources
    detached,       \* per goroutine: the gauge With returned was dropped by a Reset
    process,        \* "running", "escalated" (panic line 92), "nil_deref"
    scraped,        \* the last /metrics response
    dispatched,     \* history: cycles dispatched so far
    ticks,          \* history: sleeps that have returned
    failRun,        \* history: fetches failed since the last fetch that succeeded
    fetched,        \* history: the last two documents fetched, the older one first
    resetFrom,      \* history: the count line 97 overwrote last, -1 before that
    respBody,       \* per goroutine, history: what the GET of this cycle returned
    parsePc,        \* lines 100-111 for one event: the position in them
    notBefore,      \* the event's NotBefore string, the argument of parseTime
    fmtIdx,         \* parseTime: index of the layout tried next, 0 outside the loop
    parsedTime,     \* parseTime: the named result parsedTime
    err,            \* parseTime: the named result err, TRUE for non-nil
    eventValue,     \* lines 101-110: the local eventValue
    tried,          \* history: the layouts time.Parse was called with, in order
    calls           \* history: events whose value has been computed

\* The variables of the one-event evaluation of lines 100-111.
parseVars == <<parsePc, notBefore, fmtIdx, parsedTime, err, eventValue, tried, calls>>

\* The variables of the poll loop, its goroutines and the endpoint.
cycleVars == <<threshold, apiErrorCount, scheduledEvent,
               scheduledEventDocumentIncarnation, upstream, loopPc, pc,
               scheduledEvents, tmp, evIdx, resIdx, detached, process, scraped,
               dispatched, ticks, failRun, fetched, resetFrom,
               respBody>>

vars == <<cycleVars, parseVars>>

-----------------------------------------------------------------------------
\* Data: AzureScheduledEvent and AzureScheduledEventResponse values.

E1 == [EventId |-> "E1", EventType |-> "Reboot", ResourceType |-> "VirtualMachine",
       Resources |-> <<"vm1", "vm2">>, EventStatus |-> "Scheduled",
       NotBefore |-> "2024-01-01T00:00:00Z"]

E2 == [EventId |-> "E2", EventType |-> "Freeze", ResourceType |-> "VirtualMachine",
       Resources |-> <<>>, EventStatus |-> "Started", NotBefore |-> ""]

E3 == [EventId |-> "E3", EventType |-> "Redeploy", ResourceType |-> "VirtualMachine",
       Resources |-> <<"vm1">>, EventStatus |-> "Scheduled",
       NotBefore |-> "not-a-date"]

EventLists == {<<>>, <<E1>>, <<E2, E3>>}

AzureScheduledEventResponse(inc, events) ==
    [DocumentIncarnation |-> inc, Events |-> events]

\* The zero value of the struct: what `ret` holds before Decode fills it.
ZeroResponse == AzureScheduledEventResponse(0, <<>>)

\* A *AzureScheduledEventResponse: nil, or a pointer to a value.
NilPtr == [nil |-> TRUE, val |-> ZeroResponse]
PtrTo(v) == [nil |-> FALSE, val |-> v]

-----------------------------------------------------------------------------
\* parseTime and the layouts of timeFormatList.

timeFormatList == <<"RFC3339", "RFC1123", "RFC822Z", "RFC850">>

\* Texts the layouts accept, with the instant each denotes (as RFC3339 UTC).
KnownTimes ==
    { [layout |-> "RFC3339", text |-> "2024-01-01T00:00:00Z",
       instant |-> "2024-01-01T00:00:00Z"],
      [layout |-> "RFC3339", text |-> "2024-01-02T01:00:00+01:00",
       instant |-> "2024-01-02T00:00:00Z"],
      [layout |-> "RFC1123", text |-> "Mon, 01 Jan 2024 00:00:00 UTC",
       instant |-> "2024-01-01T00:00:00Z"],
      [layout |-> "RFC1123", text |-> "Wed, 03 Jan 2024 00:00:00 UTC",
       instant |-> "2024-01-03T00:00:00Z"],
      [layout |-> "RFC822Z", text |-> "02 Jan 24 00:00 +0000",
       instant |-> "2024-01-02T00:00:00Z"],
      [layout |-> "RFC822Z", text |-> "01 Jan 24 01:00 +0100",
       instant |-> "2024-01-01T00:00:00Z"],
      [layout |-> "RFC850", text |-> "Wednesday, 03-Jan-24 00:00:00 UTC",
       instant |-> "2024-01-03T00:00:00Z"],
      [layout |-> "RFC850", text |-> "Tuesday, 02-Jan-24 00:00:00 UTC",
       instant |-> "2024-01-02T00:00:00Z"] }

ZeroTime == "0001-01-01T00:00:00Z"

\* time.Parse(format, value): the instant and whether parsing failed.
TimeParse(format, value) ==
    LET hits == {k \in KnownTimes : k.layout = format /\ k.text = value}
    IN  IF hits = {}
        THEN [err |-> TRUE, parsedTime |-> ZeroTime]
        ELSE [err |-> FALSE, parsedTime |-> (CHOOSE k \in hits : TRUE).instant]

\* time.Time.Unix() of the instants above.
Unix(t) ==
    CASE t = "2024-01-01T00:00:00Z" -> 1704067200
      [] t = "2024-01-02T00:00:00Z" -> 1704153600
      [] t = "2024-01-03T00:00:00Z" -> 1704240000

RECURSIVE parseTimeFrom(_, _)
parseTimeFrom(i, value) ==
    LET r == TimeParse(timeFormatList[i], value)
    IN  IF ~r.err \/ i = Len(timeFormatList) THEN r ELSE parseTimeFrom(i + 1, value)

parseTime(value) == parseTimeFrom(1, value)

\* Lines 101-111: the gauge value of an event.
EventValue(event) ==
    IF event.NotBefore # ""
    THEN LET r == parseTime(event.NotBefore)
         IN  IF ~r.err THEN Unix(r.parsedTime) ELSE 0
    ELSE 1

\* Only the first listed resource is published.
ResourceLabelsFirst(event) ==
    IF Len(event.Resources) >= 1 THEN <<event.Resources[1]>> ELSE <<"">>

\* A placeholder name for an event without resources.
ResourceLabelsPlaceholder(event) ==
    IF Len(event.Resources) >= 1 THEN event.Resources ELSE <<"none">>

\* Lines 113-135: the resource labels an event is published under.
ResourceLabels(event) ==
    IF Len(event.Resources) >= 1 THEN event.Resources ELSE <<"">>

\* Lines 116-123 and 127-134: the prometheus.Labels of one sample.
Labels(event, resource) ==
    [eventID |-> event.EventId, eventType |-> event.EventType,
     resourceType |-> event.ResourceType, resource |-> resource,
     eventStatus |-> event.EventStatus, notBefore |-> event.NotBefore]

-----------------------------------------------------------------------------
\* The GaugeVec operations the source calls.

\* GaugeVec.With: the gauge of these labels, created with value 0 when absent.
GaugeWith(vec, labels) ==
    IF \E s \in vec : s.labels = labels
    THEN vec
    ELSE vec \cup {[labels |-> labels, value |-> 0]}

\* Gauge.Set on a gauge that is still in the vector.
GaugeSet(vec, labels, v) ==
    {s \in vec : s.labels # labels} \cup {[labels |-> labels, value |-> v]}

\* A Reset that drops nothing.
GaugeKeep(vec) == vec

\* GaugeVec.Reset: every gauge is dropped.
GaugeReset(vec) == {}

-----------------------------------------------------------------------------
\* fetchApiUrl: the outcomes of one GET against the endpoint.

\* Response bodies: the served document, an object without the two fields,
\* the JSON literal null, and bytes that are no JSON value of the right shape.
JsonEncode(doc) == [kind |-> "document", doc |-> doc]
OtherBodies == { [kind |-> k, doc |-> ZeroResponse] :
                 k \in {"empty_object", "null", "malformed"} }

\* A decoder that reports no error and leaves the zero struct.
DecodeIgnoringErrors(body) ==
    CASE body.kind = "document"     -> [err |-> FALSE, ret |-> PtrTo(body.doc)]
      [] body.kind = "empty_object" -> [err |-> FALSE, ret |-> PtrTo(ZeroResponse)]
      [] body.kind = "null"         -> [err |-> FALSE, ret |-> NilPtr]
      [] body.kind = "malformed"    -> [err |-> FALSE, ret |-> PtrTo(ZeroResponse)]

\* json.NewDecoder(resp.Body).Decode(&ret), ret a pointer to a zero struct.
Decode(body) ==
    CASE body.kind = "document"     -> [err |-> FALSE, ret |-> PtrTo(body.doc)]
      [] body.kind = "empty_object" -> [err |-> FALSE, ret |-> PtrTo(ZeroResponse)]
      [] body.kind = "null"         -> [err |-> FALSE, ret |-> NilPtr]
      [] body.kind = "malformed"    -> [err |-> TRUE, ret |-> NilPtr]

\* What httpClient.Do can yield while the endpoint serves `doc`.
Responses(doc) ==
    {[transport |-> "error", body |-> JsonEncode(ZeroResponse)]}
    \cup {[transport |-> "ok", body |-> b] : b \in {JsonEncode(doc)} \cup OtherBodies}

fetchApiUrl(resp) ==
    IF resp.transport = "error"
    THEN [err |-> TRUE, ret |-> NilPtr]
    ELSE Decode(resp.body)

-----------------------------------------------------------------------------
Init ==
    /\ threshold \in Thresholds
    /\ apiErrorCount = 0
    /\ scheduledEvent = {}
    /\ scheduledEventDocumentIncarnation = {}
    /\ upstream \in {AzureScheduledEventResponse(1, l) : l \in EventLists}
    /\ loopPc = "dispatch"
    /\ pc = [c \in Cycles |-> "idle"]
    /\ scheduledEvents = [c \in Cycles |-> NilPtr]
    /\ tmp = [c \in Cycles |-> 0]
    /\ evIdx = [c \in Cycles |-> 0]
    /\ resIdx = [c \in Cycles |-> 0]
    /\ detached = [c \in Cycles |-> FALSE]
    /\ process = "running"
    /\ scraped = [events |-> {}, incarnation |-> {}]
    /\ dispatched = 0
    /\ ticks = 0
    /\ failRun = 0
    /\ fetched = <<>>
    /\ resetFrom = -1
    /\ respBody = [c \in Cycles |-> "none"]
    /\ parsePc = "idle"
    /\ notBefore = ""
    /\ fmtIdx = 0
    /\ parsedTime = ZeroTime
    /\ err = FALSE
    /\ eventValue = 1
    /\ tried = <<>>
    /\ calls = 0

-----------------------------------------------------------------------------
\* startMetricsCollection: the poll loop.

IdleSlots == {c \in Cycles : pc[c] = "idle"}

\* `probeCollect()` called inline: the loop goes on only after the cycle returned.
DispatchInline ==
    /\ process = "running"
    /\ loopPc = "dispatch"
    /\ dispatched < MaxDispatch
    /\ \A c \in Cycles : pc[c] = "idle"
    /\ pc' = [pc EXCEPT ![1] = "fetch"]
    /\ loopPc' = "sleep"
    /\ dispatched' = dispatched + 1
    /\ UNCHANGED <<parseVars, respBody, threshold, apiErrorCount,
                   scheduledEvent,
                   scheduledEventDocumentIncarnation, upstream, scheduledEvents,
                   tmp, evIdx, resIdx, detached, process, scraped, ticks,
                   failRun, fetched, resetFrom>>

\* Line 72, `go probeCollect()`: a new goroutine starts at line 84; the loop
\* goes on to its sleep without waiting for it.
Dispatch ==
    /\ process = "running"
    /\ loopPc = "dispatch"
    /\ dispatched < MaxDispatch
    /\ IdleSlots # {}
    /\ LET c == CHOOSE d \in IdleSlots : \A e \in IdleSlots : d <= e
       IN  pc' = [pc EXCEPT ![c] = "fetch"]
    /\ loopPc' = "sleep"
    /\ dispatched' = dispatched + 1
    /\ UNCHANGED <<parseVars, respBody, threshold, apiErrorCount,
                   scheduledEvent,
                   scheduledEventDocumentIncarnation, upstream, scheduledEvents,
                   tmp, evIdx, resIdx, detached, process, scraped, ticks,
                   failRun, fetched, resetFrom>>

\* Line 73, time.Sleep(opts.ScrapeTime) returns.
Sleep ==
    /\ process = "running"
    /\ loopPc = "sleep"
    /\ loopPc' = "dispatch"
    /\ ticks' = ticks + 1
    /\ UNCHANGED <<parseVars, respBody, threshold, apiErrorCount,
                   scheduledEvent,
                   scheduledEventDocumentIncarnation, upstream, pc,
                   scheduledEvents, tmp, evIdx, resIdx, detached, process,
                   scraped, dispatched, failRun, fetched, resetFrom>>

\* The same sleep when opts.ScrapeTime outlasts every cycle: the cycles run
\* one after another.
SleepLong ==
    /\ \A c \in Cycles : pc[c] = "idle"
    /\ Sleep

-----------------------------------------------------------------------------
\* probeCollect.

LastTwo(q) == IF Len(q) > 2 THEN Tail(q) ELSE q

\* Line 84-85: fetchApiUrl returns and err is tested.
Fetch(c) ==
    /\ process = "running"
    /\ pc[c] = "fetch"
    /\ \E resp \in Responses(upstream) :
         LET r == fetchApiUrl(resp)
         IN  /\ respBody' = [respBody EXCEPT ![c] = IF resp.transport = "error"
                                            THEN "transport_error"
                                            ELSE resp.body.kind]
             /\ IF r.err
                THEN /\ pc' = [pc EXCEPT ![c] = "inc_load"]
                     /\ failRun' = failRun + 1
                     /\ UNCHANGED <<scheduledEvents, fetched>>
                ELSE /\ pc' = [pc EXCEPT ![c] = "reset_count"]
                     /\ failRun' = 0
                     /\ scheduledEvents' = [scheduledEvents EXCEPT ![c] = r.ret]
                     /\ fetched' = IF r.ret.nil THEN fetched
                                   ELSE LastTwo(Append(fetched, r.ret.val))
    /\ UNCHANGED <<parseVars, threshold, apiErrorCount, scheduledEvent,
                   scheduledEventDocumentIncarnation, upstream, loopPc, tmp,
                   evIdx, resIdx, detached, process, scraped, dispatched,
                   ticks, resetFrom>>

\* Line 86, apiErrorCount++: the load.
IncLoad(c) ==
    /\ process = "running"
    /\ pc[c] = "inc_load"
    /\ tmp' = [tmp EXCEPT ![c] = apiErrorCount]
    /\ pc' = [pc EXCEPT ![c] = "inc_store"]
    /\ UNCHANGED <<parseVars, respBody, threshold, apiErrorCount,
                   scheduledEvent,
                   scheduledEventDocumentIncarnation, upstream, loopPc,
                   scheduledEvents, evIdx, resIdx, detached, process, scraped,
                   dispatched, ticks, failRun, fetched, resetFrom>>

\* Line 86, apiErrorCount++: the store.
IncStore(c) ==
    /\ process = "running"
    /\ pc[c] = "inc_store"
    /\ apiErrorCount' = tmp[c] + 1
    /\ tmp' = [tmp EXCEPT ![c] = 0]
    /\ pc' = [pc EXCEPT ![c] = "check"]
    /\ UNCHANGED <<parseVars, respBody, threshold, scheduledEvent,
                   scheduledEventDocumentIncarnation,
                   upstream, loopPc, scheduledEvents, evIdx, resIdx, detached,
                   process, scraped, dispatched, ticks, failRun, fetched, resetFrom>>

\* The comparison with < for <=.
TolerateBelow(t, n) == t <= 0 \/ n < t

\* The unlimited case with < for <=.
TolerateNegative(t, n) == t < 0 \/ n <= t

\* Line 88: the condition under which the failure is only logged.
Tolerate(t, n) == t <= 0 \/ n <= t

\* A failure path that also clears the event gauges.
CheckClearing(c) ==
    /\ process = "running"
    /\ pc[c] = "check"
    /\ scheduledEvent' = {}
    /\ IF Tolerate(threshold, apiErrorCount)
       THEN /\ pc' = [pc EXCEPT ![c] = "idle"]
            /\ respBody' = [respBody EXCEPT ![c] = "none"]
            /\ UNCHANGED process
       ELSE /\ process' = "escalated"
            /\ UNCHANGED <<pc, respBody>>
    /\ UNCHANGED <<parseVars, threshold, apiErrorCount,
                   scheduledEventDocumentIncarnation, upstream, loopPc,
                   scheduledEvents, tmp, evIdx, resIdx, detached, scraped,
                   dispatched, ticks, failRun, fetched, resetFrom>>

\* Lines 88-93: log and return, or panic.
Check(c) ==
    /\ process = "running"
    /\ pc[c] = "check"
    /\ IF Tolerate(threshold, apiErrorCount)
       THEN /\ pc' = [pc EXCEPT ![c] = "idle"]
            /\ respBody' = [respBody EXCEPT ![c] = "none"]
            /\ UNCHANGED process
       ELSE /\ process' = "escalated"
            /\ UNCHANGED <<pc, respBody>>
    /\ UNCHANGED <<parseVars, threshold, apiErrorCount, scheduledEvent,
                   scheduledEventDocumentIncarnation, upstream, loopPc,
                   scheduledEvents, tmp, evIdx, resIdx, detached, scraped,
                   dispatched, ticks, failRun, fetched, resetFrom>>

\* No reset.
KeepValue(n) == n

\* Line 97: the value stored into apiErrorCount after a fetch that succeeded.
ResetValue(n) == 0

\* Line 97, apiErrorCount = 0.
ResetCount(c) ==
    /\ process = "running"
    /\ pc[c] = "reset_count"
    /\ apiErrorCount' = ResetValue(apiErrorCount)
    /\ pc' = [pc EXCEPT ![c] = "reset_metrics"]
    /\ resetFrom' = apiErrorCount
    /\ UNCHANGED <<parseVars, respBody, threshold, scheduledEvent,
                   scheduledEventDocumentIncarnation,
                   upstream, loopPc, scheduledEvents, tmp, evIdx, resIdx,
                   detached, process, scraped, dispatched, ticks, failRun,
                   fetched>>

\* Lines 98-100: scheduledEvent.Reset(), then the range over
\* scheduledEvents.Events is entered: a nil pointer panics there, an empty
\* list goes on to line 138.
ResetMetrics(c) ==
    /\ process = "running"
    /\ pc[c] = "reset_metrics"
    /\ scheduledEvent' = GaugeReset(scheduledEvent)
    /\ detached' = [d \in Cycles |-> pc[d] = "set" \/ detached[d]]
    /\ IF scheduledEvents[c].nil
       THEN /\ process' = "nil_deref"
            /\ UNCHANGED <<pc, evIdx, resIdx>>
       ELSE /\ UNCHANGED process
            /\ IF Len(scheduledEvents[c].val.Events) = 0
               THEN /\ pc' = [pc EXCEPT ![c] = "doc_with"]
                    /\ UNCHANGED <<evIdx, resIdx>>
               ELSE /\ pc' = [pc EXCEPT ![c] = "with"]
                    /\ evIdx' = [evIdx EXCEPT ![c] = 1]
                    /\ resIdx' = [resIdx EXCEPT ![c] = 1]
    /\ UNCHANGED <<parseVars, respBody, threshold, apiErrorCount,
                   scheduledEventDocumentIncarnation,
                   upstream, loopPc, scheduledEvents, tmp, scraped, dispatched,
                   ticks, failRun, fetched, resetFrom>>

CurEvent(c) == scheduledEvents[c].val.Events[evIdx[c]]
CurLabels(c) == Labels(CurEvent(c), ResourceLabels(CurEvent(c))[resIdx[c]])

\* Lines 115-122 and 126-133, scheduledEvent.With(labels).
With(c) ==
    /\ process = "running"
    /\ pc[c] = "with"
    /\ scheduledEvent' = GaugeWith(scheduledEvent, CurLabels(c))
    /\ detached' = [detached EXCEPT ![c] = FALSE]
    /\ pc' = [pc EXCEPT ![c] = "set"]
    /\ UNCHANGED <<parseVars, respBody, threshold, apiErrorCount,
                   scheduledEventDocumentIncarnation,
                   upstream, loopPc, scheduledEvents, tmp, evIdx, resIdx,
                   process, scraped, dispatched, ticks, failRun, fetched, resetFrom>>

\* A publisher that counts a NotBefore no layout parses as a failure.
SetValueCountingParseErrors(c) ==
    /\ process = "running"
    /\ pc[c] = "set"
    /\ scheduledEvent' =
         IF detached[c]
         THEN scheduledEvent
         ELSE GaugeSet(scheduledEvent, CurLabels(c), EventValue(CurEvent(c)))
    /\ apiErrorCount' =
         IF CurEvent(c).NotBefore # "" /\ parseTime(CurEvent(c).NotBefore).err
         THEN apiErrorCount + 1
         ELSE apiErrorCount
    /\ detached' = [detached EXCEPT ![c] = FALSE]
    /\ IF resIdx[c] < Len(ResourceLabels(CurEvent(c)))
       THEN /\ resIdx' = [resIdx EXCEPT ![c] = resIdx[c] + 1]
            /\ pc' = [pc EXCEPT ![c] = "with"]
            /\ UNCHANGED evIdx
       ELSE IF evIdx[c] < Len(scheduledEvents[c].val.Events)
       THEN /\ evIdx' = [evIdx EXCEPT ![c] = evIdx[c] + 1]
            /\ resIdx' = [resIdx EXCEPT ![c] = 1]
            /\ pc' = [pc EXCEPT ![c] = "with"]
       ELSE /\ evIdx' = [evIdx EXCEPT ![c] = 0]
            /\ resIdx' = [resIdx EXCEPT ![c] = 0]
            /\ pc' = [pc EXCEPT ![c] = "doc_with"]
    /\ UNCHANGED <<parseVars, respBody, threshold,
                   scheduledEventDocumentIncarnation,
                   upstream, loopPc, scheduledEvents, tmp, process, scraped,
                   dispatched, ticks, failRun, fetched, resetFrom>>

\* Lines 123 and 134, .Set(eventValue) on the gauge With returned, and the
\* step of the two ranges to the next sample.
SetValue(c) ==
    /\ process = "running"
    /\ pc[c] = "set"
    /\ scheduledEvent' =
         IF detached[c]
         THEN scheduledEvent
         ELSE GaugeSet(scheduledEvent, CurLabels(c), EventValue(CurEvent(c)))
    /\ detached' = [detached EXCEPT ![c] = FALSE]
    /\ IF resIdx[c] < Len(ResourceLabels(CurEvent(c)))
       THEN /\ resIdx' = [resIdx EXCEPT ![c] = resIdx[c] + 1]
            /\ pc' = [pc EXCEPT ![c] = "with"]
            /\ UNCHANGED evIdx
       ELSE IF evIdx[c] < Len(scheduledEvents[c].val.Events)
       THEN /\ evIdx' = [evIdx EXCEPT ![c] = evIdx[c] + 1]
            /\ resIdx' = [resIdx EXCEPT ![c] = 1]
            /\ pc' = [pc EXCEPT ![c] = "with"]
       ELSE /\ evIdx' = [evIdx EXCEPT ![c] = 0]
            /\ resIdx' = [resIdx EXCEPT ![c] = 0]
            /\ pc' = [pc EXCEPT ![c] = "doc_with"]
    /\ UNCHANGED <<parseVars, respBody, threshold, apiErrorCount,
                   scheduledEventDocumentIncarnation,
                   upstream, loopPc, scheduledEvents, tmp, process, scraped,
                   dispatched, ticks, failRun, fetched, resetFrom>>

\* Line 138, scheduledEventDocumentIncarnation.With(prometheus.Labels{}).
DocWith(c) ==
    /\ process = "running"
    /\ pc[c] = "doc_with"
    /\ scheduledEventDocumentIncarnation' =
         GaugeWith(scheduledEventDocumentIncarnation, <<>>)
    /\ pc' = [pc EXCEPT ![c] = "doc_set"]
    /\ UNCHANGED <<parseVars, respBody, threshold, apiErrorCount,
                   scheduledEvent, upstream, loopPc,
                   scheduledEvents, tmp, evIdx, resIdx, detached, process,
                   scraped, dispatched, ticks, failRun, fetched, resetFrom>>

\* The gauge set only when the document lists events.
DocSetSkipEmpty(c) ==
    /\ process = "running"
    /\ pc[c] = "doc_set"
    /\ scheduledEventDocumentIncarnation' =
         IF Len(scheduledEvents[c].val.Events) = 0
         THEN scheduledEventDocumentIncarnation
         ELSE GaugeSet(scheduledEventDocumentIncarnation, <<>>,
                       scheduledEvents[c].val.DocumentIncarnation)
    /\ scheduledEvents' = [scheduledEvents EXCEPT ![c] = NilPtr]
    /\ respBody' = [respBody EXCEPT ![c] = "none"]
    /\ pc' = [pc EXCEPT ![c] = "idle"]
    /\ UNCHANGED <<parseVars, threshold, apiErrorCount,
                   scheduledEvent, upstream, loopPc,
                   tmp, evIdx, resIdx, detached, process, scraped, dispatched,
                   ticks, failRun, fetched, resetFrom>>

\* Lines 138-141, .Set(float64(scheduledEvents.DocumentIncarnation)) and the
\* return of probeCollect.
DocSet(c) ==
    /\ process = "running"
    /\ pc[c] = "doc_set"
    /\ scheduledEventDocumentIncarnation' =
         GaugeSet(scheduledEventDocumentIncarnation, <<>>,
                  scheduledEvents[c].val.DocumentIncarnation)
    /\ scheduledEvents' = [scheduledEvents EXCEPT ![c] = NilPtr]
    /\ respBody' = [respBody EXCEPT ![c] = "none"]
    /\ pc' = [pc EXCEPT ![c] = "idle"]
    /\ UNCHANGED <<parseVars, threshold, apiErrorCount,
                   scheduledEvent, upstream, loopPc,
                   tmp, evIdx, resIdx, detached, process, scraped, dispatched,
                   ticks, failRun, fetched, resetFrom>>

-----------------------------------------------------------------------------
\* startHttpServer: one GET /metrics, served from the two gauge vectors.
Scrape ==
    /\ process = "running"
    /\ scraped' = [events |-> scheduledEvent,
                   incarnation |-> scheduledEventDocumentIncarnation]
    /\ UNCHANGED <<parseVars, respBody, threshold, apiErrorCount,
                   scheduledEvent,
                   scheduledEventDocumentIncarnation, upstream, loopPc, pc,
                   scheduledEvents, tmp, evIdx, resIdx, detached, process,
                   dispatched, ticks, failRun, fetched, resetFrom>>

\* The metadata service replaces its document by a newer one.
UpstreamChange ==
    /\ process = "running"
    /\ upstream.DocumentIncarnation < MaxIncarnation
    /\ \E l \in EventLists :
         upstream' = AzureScheduledEventResponse(upstream.DocumentIncarnation + 1, l)
    /\ UNCHANGED <<parseVars, respBody, threshold, apiErrorCount,
                   scheduledEvent,
                   scheduledEventDocumentIncarnation, loopPc, pc,
                   scheduledEvents, tmp, evIdx, resIdx, detached, process,
                   scraped, dispatched, ticks, failRun, fetched, resetFrom>>

-----------------------------------------------------------------------------
probeCollect(c) ==
    \/ Fetch(c)
    \/ IncLoad(c)
    \/ IncStore(c)
    \/ Check(c)
    \/ ResetCount(c)
    \/ ResetMetrics(c)
    \/ With(c)
    \/ SetValue(c)
    \/ DocWith(c)
    \/ DocSet(c)

\* Overlapping cycles: the poll loop, the goroutines it starts, the endpoint.
Next ==
    \/ Dispatch
    \/ Sleep
    \/ \E c \in Cycles : probeCollect(c)
    \/ UpstreamChange

Spec == Init /\ [][Next]_vars

\* The program when opts.ScrapeTime outlasts every cycle.
NextSeq ==
    \/ Dispatch
    \/ SleepLong
    \/ \E c \in Cycles : probeCollect(c)
    \/ UpstreamChange

SpecSeq == Init /\ [][NextSeq]_vars

\* The same, with the /metrics handler serving requests at any moment.  A
\* scrape writes no variable the cycles read, so the two specifications above
\* reach the same program states without it.
NextScrape ==
    \/ NextSeq
    \/ Scrape

SpecScrape == Init /\ [][NextScrape]_vars

-----------------------------------------------------------------------------
\* Lines 100-111 and parseTime, statement by statement, for one event after
\* another of a range over scheduledEvents.Events.

\* The NotBefore strings an event can carry: none, the texts a layout accepts,
\* and texts no layout accepts.
Texts ==
    {""} \cup {k.text : k \in KnownTimes}
         \cup {"not-a-date", "2024-01-01", "2024-01-01 00:00:00"}

\* A failed parse that leaves the initial value of line 101.
ValueOfKeepOne(e, t) == IF ~e THEN Unix(t) ELSE 1

\* Lines 105-110: the value after parseTime returned (t, e).
ValueOf(e, t) == IF ~e THEN Unix(t) ELSE 0

\* Lines 100-104: the next event of the range, eventValue := 1, and the call of
\* parseTime when NotBefore is not empty.
EventStart ==
    /\ parsePc \in {"idle", "done"}
    /\ calls < MaxCalls
    /\ \E text \in Texts :
         /\ notBefore' = text
         /\ parsePc' = IF text # "" THEN "loop" ELSE "done"
         /\ fmtIdx' = IF text # "" THEN 1 ELSE 0
    /\ eventValue' = 1
    /\ parsedTime' = ZeroTime
    /\ err' = FALSE
    /\ tried' = <<>>
    /\ calls' = calls + 1
    /\ UNCHANGED cycleVars

\* The loop of parseTime without its break.
ParseTryNoBreak ==
    /\ parsePc = "loop"
    /\ LET r == TimeParse(timeFormatList[fmtIdx], notBefore)
       IN  /\ parsedTime' = r.parsedTime
           /\ err' = r.err
           /\ tried' = Append(tried, timeFormatList[fmtIdx])
           /\ IF fmtIdx = Len(timeFormatList)
              THEN /\ parsePc' = "return"
                   /\ fmtIdx' = 0
              ELSE /\ fmtIdx' = fmtIdx + 1
                   /\ UNCHANGED parsePc
    /\ UNCHANGED <<notBefore, eventValue, calls>>
    /\ UNCHANGED cycleVars

\* Lines 167-171: one iteration of the loop over timeFormatList.
ParseTry ==
    /\ parsePc = "loop"
    /\ LET r == TimeParse(timeFormatList[fmtIdx], notBefore)
       IN  /\ parsedTime' = r.parsedTime
           /\ err' = r.err
           /\ tried' = Append(tried, timeFormatList[fmtIdx])
           /\ IF ~r.err \/ fmtIdx = Len(timeFormatList)
              THEN /\ parsePc' = "return"
                   /\ fmtIdx' = 0
              ELSE /\ fmtIdx' = fmtIdx + 1
                   /\ UNCHANGED parsePc
    /\ UNCHANGED <<notBefore, eventValue, calls>>
    /\ UNCHANGED cycleVars

\* Line 174 and lines 104-110: parseTime returns, eventValue is assigned.
ParseReturn ==
    /\ parsePc = "return"
    /\ eventValue' = ValueOf(err, parsedTime)
    /\ parsePc' = "done"
    /\ UNCHANGED <<notBefore, fmtIdx, parsedTime, err, tried, calls>>
    /\ UNCHANGED cycleVars

\* One goroutine inside its range loop, nothing else running.
InitParse ==
    /\ Init
    /\ threshold = 0
    /\ upstream = AzureScheduledEventResponse(1, <<>>)

NextParse ==
    \/ EventStart
    \/ ParseTry
    \/ ParseReturn

SpecParse == InitParse /\ [][NextParse]_vars

-----------------------------------------------------------------------------
\* Vocabulary of the properties.

Quiet == \A c \in Cycles : pc[c] = "idle"
FailStages == {"inc_load", "inc_store", "check"}
SuccessStages == {"reset_count", "reset_metrics", "with", "set", "doc_with", "doc_set"}
PublishStages == SuccessStages \ {"reset_count"}
NoPublisher == \A c \in Cycles : pc[c] \notin SuccessStages

\* The samples a document stands for: one per (event, resource) pair, one
\* with an empty resource label for an event without resources.
SamplesOfEvent(e) ==
    LET sample(r) ==
          [labels |-> [eventID |-> e.EventId, eventType |-> e.EventType,
                       resourceType |-> e.ResourceType, resource |-> r,
                       eventStatus |-> e.EventStatus, notBefore |-> e.NotBefore],
           value |-> EventValue(e)]
    IN  IF e.Resources = <<>>
        THEN {sample("")}
        ELSE {sample(e.Resources[k]) : k \in DOMAIN e.Resources}

ExpectedSamples(events) ==
    UNION {SamplesOfEvent(events[k]) : k \in DOMAIN events}

LabelsOf(samples) == {x.labels : x \in samples}

Last(q) == q[Len(q)]

-----------------------------------------------------------------------------
\* C1: with a threshold T > 0 and cycles that run one after another, the
\* process has escalated only on the (T+1)-th consecutive failed cycle, and no
\* run of more than T failed cycles has ended without escalating.
C1_EscalateAfterThreshold ==
    threshold > 0 =>
        /\ process = "escalated" => failRun = threshold + 1
        /\ (process = "running" /\ \A c \in Cycles : pc[c] \notin FailStages)
              => failRun <= threshold

C1_Witness ==
    /\ threshold > 0
    /\ process = "escalated"
    /\ failRun = threshold + 1
    /\ apiErrorCount = threshold + 1

\* C2: with a threshold <= 0 the process never escalates, whatever the
\* number and the interleaving of failed cycles.
C2_UnlimitedNeverEscalates ==
    threshold <= 0 => process # "escalated"

C2_Witness ==
    /\ threshold <= 0
    /\ Quiet
    /\ failRun = MaxDispatch
    /\ apiErrorCount >= 2
    /\ process = "running"

\* C3: when cycles run one after another, a cycle whose fetch succeeded has
\* set FailureCounter to 0 before it touches the gauges, and between cycles
\* FailureCounter is the number of fetches failed since the last success.
C3_SuccessResetsCounter ==
    /\ \A c \in Cycles : pc[c] \in PublishStages => apiErrorCount = 0
    /\ Quiet => apiErrorCount = failRun

C3_Witness ==
    /\ Quiet
    /\ resetFrom > 0
    /\ apiErrorCount = 1
    /\ failRun = 1

\* C4: when cycles run one after another and none is publishing, the event
\* gauges are exactly the samples of the document fetched last.
C4_ExactlyLatestSnapshot ==
    (fetched # <<>> /\ NoPublisher) =>
        scheduledEvent = ExpectedSamples(Last(fetched).Events)

C4_Witness ==
    /\ Quiet
    /\ Len(fetched) = 2
    /\ fetched[1].Events = <<E1>>
    /\ fetched[2].Events = <<E2, E3>>
    /\ LabelsOf(scheduledEvent) = LabelsOf(ExpectedSamples(<<E2, E3>>))

\* C5: a step of a failed cycle (the failed fetch, the increment, the
\* tolerate-or-panic decision) changes neither gauge vector, and nothing of
\* the program's state but FailureCounter and the cycle's own position.
FailedStep(c) ==
    \/ pc[c] = "fetch" /\ pc'[c] = "inc_load"
    \/ pc[c] \in FailStages /\ pc'[c] # pc[c]
    \/ pc[c] = "check" /\ process = "running" /\ process' = "escalated"

C5_FailedCycleFrame ==
    [][\A c \in Cycles :
          FailedStep(c) =>
              /\ scheduledEvent' = scheduledEvent
              /\ scheduledEventDocumentIncarnation' = scheduledEventDocumentIncarnation
              /\ <<threshold, upstream, loopPc, scheduledEvents>>'
                   = <<threshold, upstream, loopPc, scheduledEvents>>
              /\ (pc[c] # "inc_store" => apiErrorCount' = apiErrorCount)]_vars

C5_Witness ==
    /\ Quiet
    /\ process = "running"
    /\ failRun >= 1
    /\ apiErrorCount >= 1
    /\ scheduledEvent # {}
    /\ scheduledEventDocumentIncarnation # {}

\* C6: when cycles run one after another and none is publishing, the
\* document-revision gauge holds the DocumentIncarnation of the document
\* fetched last, also after failed cycles and for a document without events.
C6_IncarnationOfLatestSnapshot ==
    (fetched # <<>> /\ NoPublisher) =>
        scheduledEventDocumentIncarnation =
            {[labels |-> <<>>, value |-> Last(fetched).DocumentIncarnation]}

C6_Witness ==
    /\ Quiet
    /\ fetched # <<>>
    /\ Last(fetched) = AzureScheduledEventResponse(2, <<>>)
    /\ failRun >= 1
    /\ scheduledEventDocumentIncarnation = {[labels |-> <<>>, value |-> 2]}

\* C7: a scrape returns the complete samples of the previous document or the
\* complete samples of the document being published, nothing in between.
PreviousSamples ==
    LET n == Len(fetched) - (IF NoPublisher THEN 0 ELSE 1)
    IN  IF n >= 1 THEN ExpectedSamples(fetched[n].Events) ELSE {}

NewSamples ==
    IF fetched # <<>> THEN ExpectedSamples(Last(fetched).Events) ELSE {}

C7_ScrapeSeesWholeSnapshot ==
    [][Scrape => scraped'.events \in {PreviousSamples, NewSamples}]_vars

\* C8: the event gauges never hold samples of two different documents.
C8_NoMixedSnapshots ==
    \E l \in EventLists : LabelsOf(scheduledEvent) \subseteq LabelsOf(ExpectedSamples(l))

\* C9: when every cycle so far has failed and all have returned,
\* FailureCounter is the number of those cycles.
C9_NoLostUpdate ==
    (Quiet /\ process = "running" /\ failRun = dispatched) => apiErrorCount = failRun

\* C10: the first cycle is dispatched before any sleep, one cycle follows
\* every sleep, and neither the dispatch nor the timer waits for a cycle
\* that is still running.
C10_DispatchIndependentOfCycles ==
    /\ dispatched = ticks + (IF loopPc = "sleep" THEN 1 ELSE 0)
    /\ (process = "running" /\ loopPc = "dispatch" /\ dispatched < MaxDispatch
            /\ IdleSlots # {}) => ENABLED Dispatch
    /\ (process = "running" /\ loopPc = "sleep") => ENABLED Sleep

C10_Witness ==
    /\ dispatched = 2
    /\ ticks = 1
    /\ pc[1] = "fetch"
    /\ pc[2] = "fetch"

\* The samples published under the EventId of `e`.
SamplesWithId(e) == {x \in scheduledEvent : x.labels.eventID = e.EventId}

ResourceNames(e) == {e.Resources[i] : i \in DOMAIN e.Resources}

\* The layouts of timeFormatList, by position, that accept `text`.
Matching(text) ==
    {i \in DOMAIN timeFormatList : ~TimeParse(timeFormatList[i], text).err}

FirstMatch(text) ==
    CHOOSE i \in Matching(text) : \A j \in Matching(text) : i <= j

\* A document one of whose events carries a NotBefore no layout parses.
HasMalformedTime(doc) ==
    \E k \in DOMAIN doc.Events :
        doc.Events[k].NotBefore # "" /\ Matching(doc.Events[k].NotBefore) = {}

\* C11: the process leaves the running state only by escalation, that is from
\* a failed cycle at its tolerate-or-panic decision, with a positive threshold
\* that FailureCounter exceeds.
C11_TerminatesOnlyByEscalation ==
    process # "running" =>
        /\ process = "escalated"
        /\ threshold > 0
        /\ apiErrorCount > threshold
        /\ \E c \in Cycles : pc[c] = "check"

\* C12: when cycles run one after another and none is publishing, an event of
\* the document fetched last that lists n >= 1 resources has one sample per
\* listed resource, n samples for n distinct names, all with the event's
\* value and with labels that differ in the resource label only.
C12_OneSamplePerResource ==
    (fetched # <<>> /\ NoPublisher) =>
        \A k \in DOMAIN Last(fetched).Events :
            LET e == Last(fetched).Events[k]
            IN  Len(e.Resources) >= 1 =>
                  /\ {x.labels.resource : x \in SamplesWithId(e)} = ResourceNames(e)
                  /\ Cardinality(SamplesWithId(e)) = Cardinality(ResourceNames(e))
                  /\ \A x, y \in SamplesWithId(e) :
                        /\ x.value = y.value
                        /\ [x.labels EXCEPT !.resource = ""]
                             = [y.labels EXCEPT !.resource = ""]
                  /\ \A x \in SamplesWithId(e) : x.value = EventValue(e)

C12_Witness ==
    /\ Quiet
    /\ fetched # <<>>
    /\ Last(fetched).Events = <<E1>>
    /\ Cardinality(SamplesWithId(E1)) = 2
    /\ {x.labels.resource : x \in scheduledEvent} = {"vm1", "vm2"}

\* C13: when cycles run one after another and none is publishing, an event of
\* the document fetched last that lists no resource has exactly one sample,
\* with an empty resource label, and every event has at least one sample.
C13_OneSampleWithoutResources ==
    (fetched # <<>> /\ NoPublisher) =>
        \A k \in DOMAIN Last(fetched).Events :
            LET e == Last(fetched).Events[k]
            IN  /\ SamplesWithId(e) # {}
                /\ Len(e.Resources) = 0 =>
                      /\ Cardinality(SamplesWithId(e)) = 1
                      /\ \A x \in SamplesWithId(e) : x.labels.resource = ""

C13_Witness ==
    /\ Quiet
    /\ fetched # <<>>
    /\ Last(fetched).Events = <<E2, E3>>
    /\ \E x \in scheduledEvent :
          x.labels.eventID = "E2" /\ x.labels.resource = ""

\* C15: when cycles run one after another, a cycle whose document carries a
\* NotBefore that no layout parses keeps FailureCounter at 0 and the process
\* running from its reset on, and once it has ended every event of the
\* document is published, the malformed one with value 0, together with the
\* document-revision gauge.
C15_ParseFailureIsNotCycleFailure ==
    /\ \A c \in Cycles :
          (/\ pc[c] \in PublishStages
           /\ ~scheduledEvents[c].nil
           /\ HasMalformedTime(scheduledEvents[c].val)) =>
              apiErrorCount = 0 /\ process = "running"
    /\ (/\ fetched # <<>>
        /\ NoPublisher
        /\ failRun = 0
        /\ HasMalformedTime(Last(fetched))) =>
           /\ apiErrorCount = 0
           /\ process = "running"
           /\ \A k \in DOMAIN Last(fetched).Events :
                 LET e == Last(fetched).Events[k]
                 IN  /\ SamplesWithId(e) # {}
                     /\ \A x \in SamplesWithId(e) :
                           x.value =
                              IF e.NotBefore # "" /\ Matching(e.NotBefore) = {}
                              THEN 0
                              ELSE EventValue(e)
           /\ scheduledEventDocumentIncarnation =
                 {[labels |-> <<>>, value |-> Last(fetched).DocumentIncarnation]}

C15_Witness ==
    /\ Quiet
    /\ failRun = 0
    /\ apiErrorCount = 0
    /\ resetFrom > 0
    /\ fetched # <<>>
    /\ HasMalformedTime(Last(fetched))
    /\ \E x \in scheduledEvent : x.labels.eventID = "E3" /\ x.value = 0

\* C14: when lines 100-111 have computed the value of an event, it is 1 for
\* an empty NotBefore, the Unix seconds of the instant the text denotes when
\* a layout accepts it, and 0 for any other text; it is the value the
\* publisher sets.
C14_ValueFromNotBefore ==
    parsePc = "done" =>
        /\ notBefore = "" => eventValue = 1
        /\ \A k \in KnownTimes :
              k.text = notBefore => eventValue = Unix(k.instant)
        /\ (notBefore # "" /\ \A k \in KnownTimes : k.text # notBefore) =>
              eventValue = 0
        /\ eventValue = EventValue([NotBefore |-> notBefore])

C14_Witness ==
    /\ parsePc = "done"
    /\ calls = 2
    /\ notBefore = "2024-01-01 00:00:00"
    /\ Len(tried) = 4
    /\ eventValue = 0

\* C16 as stated: a cycle whose response body is malformed, or is a JSON
\* object without DocumentIncarnation and Events, is on the failure path.
C16_ShapeMismatchIsFailure ==
    \A c \in Cycles :
        respBody[c] \in {"malformed", "empty_object"} => pc[c] \in FailStages

\* C16, amended: when cycles run one after another, a cycle whose body the
\* decoder rejects is on the failure path, FailureCounter counts it when the
\* cycle decides, and the gauges still hold the document fetched last; a JSON
\* object without the two fields decodes to the zero document and the cycle
\* is on the success path with it.
C16_DecodeErrorIsFailure ==
    \A c \in Cycles :
        /\ respBody[c] = "malformed" =>
              /\ pc[c] \in FailStages
              /\ pc[c] = "check" => apiErrorCount = failRun /\ apiErrorCount >= 1
              /\ scheduledEvent =
                    IF fetched = <<>> THEN {}
                    ELSE ExpectedSamples(Last(fetched).Events)
              /\ scheduledEventDocumentIncarnation =
                    IF fetched = <<>> THEN {}
                    ELSE {[labels |-> <<>>,
                           value |-> Last(fetched).DocumentIncarnation]}
        /\ respBody[c] = "empty_object" =>
              /\ pc[c] \in SuccessStages
              /\ scheduledEvents[c] = PtrTo(ZeroResponse)

C16_Witness ==
    \E c \in Cycles :
        /\ respBody[c] = "malformed"
        /\ pc[c] = "check"
        /\ apiErrorCount = 1
        /\ scheduledEvent = ExpectedSamples(<<E1>>)

\* C17: parseTime calls time.Parse with the layouts in the order of
\* timeFormatList and with none after the first that accepts the text; it
\* returns the instant of that layout, and an error exactly when no layout
\* accepts the text.
C17_FirstMatchingLayout ==
    /\ parsePc = "loop" =>
          /\ tried = SubSeq(timeFormatList, 1, fmtIdx - 1)
          /\ \A i \in 1..(fmtIdx - 1) : i \notin Matching(notBefore)
    /\ parsePc = "return" =>
          /\ err <=> Matching(notBefore) = {}
          /\ Matching(notBefore) = {} => tried = timeFormatList
          /\ Matching(notBefore) # {} =>
                /\ tried = SubSeq(timeFormatList, 1, FirstMatch(notBefore))
                /\ parsedTime =
                      TimeParse(timeFormatList[FirstMatch(notBefore)],
                                notBefore).parsedTime

C17_Witness ==
    /\ parsePc = "return"
    /\ ~err
    /\ tried = <<"RFC3339", "RFC1123">>
    /\ parsedTime = "2024-01-03T00:00:00Z"

\* The value of the document-revision gauge, 0 before it exists.
Revision ==
    IF scheduledEventDocumentIncarnation = {}
    THEN 0
    ELSE (CHOOSE x \in scheduledEventDocumentIncarnation : TRUE).value

\* C18: while every document fetched carries the DocumentIncarnation of the
\* upstream (which never decreases), no step lowers the document-revision
\* gauge, also when cycles overlap.
C18_RevisionNeverDecreases ==
    [][(\A c \in Cycles : respBody[c] # "empty_object") =>
           Revision' >= Revision]_vars

\* C19: with a threshold T > 0, FailureCounter is within 0..T+1 in every
\* reachable state, also when cycles overlap.
C19_CounterWithinThresholdPlusOne ==
    threshold > 0 => apiErrorCount \in 0..(threshold + 1)

\* C20: in every reachable state, every event sample holds the value
\* computed from its own notBefore label.
C20_ValueMatchesNotBeforeLabel ==
    \A x \in scheduledEvent :
        x.value = EventValue([NotBefore |-> x.labels.notBefore])

====
